---- MODULE Spec2Model ----
(***************************************************************************)
(* Model of the pass3 calendar dashboard: the run / processing-step store, *)
(* the HTTP handlers of src/main.rs that write to it, the legacy import of *)
(* src/bin/import_events.rs, and the two GitHub mirror push functions.     *)
(*                                                                         *)
(* Atomicity grain: one SQL statement (one `.execute(..).await`) or one    *)
(* HTTP call to the mirror is one step.  A handler that runs one statement *)
(* is one action; create_run and the import loop body run three            *)
(* statements and are three steps that other requests interleave with.     *)
(*                                                                         *)
(* Store errors: a statement whose result the code reads (a match on       *)
(* execute().await, an `if let Ok`) may return Err.  A statement whose     *)
(* result is discarded with `let _ =` is modelled by what it does to the   *)
(* table; in create_run, where the value bound to run_number is the text   *)
(* of a UUID, the store may take the row or reject it.                     *)
(***************************************************************************)
EXTENDS Integers, Sequences, FiniteSets, TLC

VARIABLES
    runs,       \* rows of table runs
    steps,      \* rows of table processing_steps
    crTasks,    \* create_run requests between their INSERTs
    resp,       \* the last request answered and its response
    nreq,       \* number of HTTP requests received
    imp,        \* the import binary: loop position and counters
    mirror,     \* the remote file runs.json: content and its sha
    push        \* invocations of push_to_github_event(s)

vars == <<runs, steps, crTasks, resp, nreq, imp, mirror, push>>

\* ------------------------------------------------------------------ bounds
MaxRequests == 3
MaxEvents == 3
MaxPushes == 2

\* ------------------------------------------------------------- value types
\* Option<T>: None is the empty sequence, Some(x) the one-element sequence.
None == <<>>
Some(x) == <<x>>

\* A value bound to the run_number column: an i32, or the text of a UUID.
I32(n) == <<"i32", n>>
UuidText(k) == <<"uuid", k>>

\* Uuid::new_v4(): a value distinct from every other one drawn.  The i-th
\* draw of HTTP request r and the i-th draw of import record idx are named by
\* who draws them, which keeps them apart.
RequestUuid(r, i) == UuidText(10 * r + i)
ImportUuid(idx, i) == UuidText(1000 + 10 * idx + i)

WorkflowState ==
    { "NotYetStarted", "TransferFromTape", "ProcessStep1", "FinishStep1",
      "TransferWIPAC", "ProcessStep2", "FinishStep2", "Complete",
      "Step1Error", "Step2Error" }

\* impl Display for WorkflowState
Display(s) ==
    CASE s = "NotYetStarted" -> "Not Yet Started"
      [] s = "TransferFromTape" -> "Transfer from Tape"
      [] s = "ProcessStep1" -> "Process Step 1"
      [] s = "FinishStep1" -> "Finish Step 1"
      [] s = "TransferWIPAC" -> "Transfer WIPAC"
      [] s = "ProcessStep2" -> "Process Step 2"
      [] s = "FinishStep2" -> "Finish Step 2"
      [] s = "Complete" -> "Complete"
      [] s = "Step1Error" -> "Step 1 Error"
      [] s = "Step2Error" -> "Step 2 Error"

\* The session cookie as the handlers read it: jar.get("session").map(value)
AdminCookie == Some("admin_authorized")
Cookies == { None, AdminCookie, Some("guest") }
\* Mutant: any session cookie passes, whatever its value.
AuthorizedAnyCookie(cookie) == cookie # None
Authorized(cookie) == cookie = AdminCookie

\* Result of one statement as the caller sees it: executed, or a store error.
StoreResults == { "ok", "err" }

\* ------------------------------------------------------------ input samples
RunNumbers == { 1, 2 }
StepNumbers == { 1, 2 }
SampleStates == { "ProcessStep1", "Complete" }
Date(y, m, d) == <<y, m, d>>

\* CreateRunPayload after extraction: state is the WorkflowState the wire
\* string "Not Yet Started" deserializes to.
CreateRunPayloads ==
    { [ file_number |-> 7, run_start_date |-> Date(2024, 1, 1),
        state |-> "NotYetStarted", url |-> None ] }

\* UpdateStepPayload bodies: every optional field may be absent.
StepFields ==
    { [ started_date |-> None, end_date |-> None, site |-> None,
        checksum |-> None, location |-> None ],
      [ started_date |-> Some(Date(2024, 2, 1)), end_date |-> Some(Date(2024, 2, 2)),
        site |-> Some("NERSC"), checksum |-> Some("abc"), location |-> Some("/data") ],
      [ started_date |-> None, end_date |-> None, site |-> Some("WIPAC"),
        checksum |-> None, location |-> None ] }

\* ------------------------------------------------------------------- store
RunsWith(n) == { r \in runs : r.run_number = n }
StepsOf(n) == { s \in steps : s.run_number = n }
StepAt(n, k) == { s \in steps : s.run_number = n /\ s.step_number = k }

\* INSERT INTO processing_steps (id, run_number, step_number): the other
\* columns take their default, NULL.
EmptyStep(id, n, k) ==
    [ id |-> id, run_number |-> n, step_number |-> k,
      started_date |-> None, end_date |-> None, site |-> None,
      checksum |-> None, location |-> None ]

NoResp == [ op |-> "none", cookie |-> None, req |-> None, status |-> 0,
            body |-> "", again |-> FALSE, created |-> None, details |-> None ]

\* The response to request (op, cookie, req); again says whether the request
\* answered just before it was the same and got the same answer, created
\* which run_number a
\* finished create_run bound to its Run row, details the JSON body of a
\* get_run_details response.
Respond(op, cookie, req, status, body) ==
    [ op |-> op, cookie |-> cookie, req |-> req, status |-> status, body |-> body,
      again |-> (resp.op = op /\ resp.cookie = cookie /\ resp.req = req
                 /\ resp.status = status /\ resp.body = body),
      created |-> None, details |-> None ]

Unauthorized(op, cookie, req) ==
    /\ resp' = Respond(op, cookie, req, 401, "Please Log In First")
    /\ UNCHANGED <<runs, steps, crTasks>>

\* ---------------------------------------------------------------- handlers

\* POST /api/runs, up to and including the INSERT INTO runs.  The run_number
\* bound is the text of a fresh UUID; whether the store takes it depends on
\* the column's type, so both results are possible.
CreateRun(cookie, payload, res) ==
    /\ nreq < MaxRequests
    /\ nreq' = nreq + 1
    /\ UNCHANGED <<imp, mirror, push>>
    /\ IF ~Authorized(cookie)
       THEN Unauthorized("create_run", cookie, Some(payload))
       ELSE /\ UNCHANGED steps
            /\ IF res = "ok"
               THEN /\ runs' = runs \cup
                          { [ run_number |-> RequestUuid(nreq', 1),
                              file_number |-> payload.file_number,
                              run_start_date |-> payload.run_start_date,
                              state |-> payload.state,
                              url |-> payload.url ] }
                    /\ crTasks' = crTasks \cup
                          { [ request |-> nreq', run_number |-> RequestUuid(nreq', 1),
                              payload |-> payload, next |-> 1 ] }
                    /\ UNCHANGED resp
               ELSE /\ resp' = Respond("create_run", cookie, Some(payload), 500,
                                       "Failed to create run")
                    /\ UNCHANGED <<runs, crTasks>>

\* The loop `for step_num in [1, 2]` of create_run: one INSERT per step, its
\* result discarded.  Both the id and the run_number bound are fresh UUIDs.
CreateRunStep(t, res) ==
    /\ t \in crTasks
    /\ steps' = IF res = "ok"
                THEN steps \cup { EmptyStep(RequestUuid(t.request, 2 * t.next),
                                            RequestUuid(t.request, 2 * t.next + 1),
                                            t.next) }
                ELSE steps
    /\ IF t.next = 1
       THEN /\ crTasks' = (crTasks \ {t}) \cup { [ t EXCEPT !.next = 2 ] }
            /\ UNCHANGED resp
       ELSE /\ crTasks' = crTasks \ {t}
            /\ resp' = [ Respond("create_run", AdminCookie, Some(t.payload), 200,
                                 "Run created")
                         EXCEPT !.created = Some(t.run_number) ]
    /\ UNCHANGED <<runs, nreq, imp, mirror, push>>

\* Mutant: a transition to the state the run is already in is refused.
UpdateRunStateRejectsSame(cookie, n, new_state, res) ==
    /\ nreq < MaxRequests
    /\ nreq' = nreq + 1
    /\ UNCHANGED <<imp, mirror, push>>
    /\ LET req == Some([ run_number |-> n, new_state |-> new_state ]) IN
       IF ~Authorized(cookie)
       THEN Unauthorized("update_run_state", cookie, req)
       ELSE /\ UNCHANGED <<steps, crTasks>>
            /\ IF \E r \in RunsWith(I32(n)) : r.state = new_state
               THEN /\ runs' = runs
                    /\ resp' = Respond("update_run_state", cookie, req, 409,
                                       "Already in that state")
               ELSE IF res = "ok" /\ RunsWith(I32(n)) # {}
               THEN /\ runs' = { IF r.run_number = I32(n)
                                 THEN [ r EXCEPT !.state = new_state ] ELSE r
                                 : r \in runs }
                    /\ resp' = Respond("update_run_state", cookie, req, 200, "Updated")
               ELSE /\ runs' = runs
                    /\ resp' = Respond("update_run_state", cookie, req, 200,
                                       "No runs updated")

\* POST /api/runs/:run_number/state.  The run is the one of the path; the
\* body's run_number is not read.  A store error and an UPDATE of no row take
\* the same arm.
UpdateRunState(cookie, n, new_state, res) ==
    /\ nreq < MaxRequests
    /\ nreq' = nreq + 1
    /\ UNCHANGED <<imp, mirror, push>>
    /\ LET req == Some([ run_number |-> n, new_state |-> new_state ]) IN
       IF ~Authorized(cookie)
       THEN Unauthorized("update_run_state", cookie, req)
       ELSE /\ UNCHANGED <<steps, crTasks>>
            /\ IF res = "ok" /\ RunsWith(I32(n)) # {}
               THEN /\ runs' = { IF r.run_number = I32(n)
                                 THEN [ r EXCEPT !.state = new_state ] ELSE r
                                 : r \in runs }
                    /\ resp' = Respond("update_run_state", cookie, req, 200, "Updated")
               ELSE /\ runs' = runs
                    /\ resp' = Respond("update_run_state", cookie, req, 200,
                                       "No runs updated")

\* UPDATE processing_steps SET started_date = $1, end_date = $2, site = $3,
\* checksum = $4, location = $5: each column takes the bound value, NULL
\* when the field is absent from the body.
SetStepFields(s, f) ==
    [ s EXCEPT !.started_date = f.started_date, !.end_date = f.end_date,
               !.site = f.site, !.checksum = f.checksum, !.location = f.location ]

\* POST /api/steps
UpdateStep(cookie, n, k, f, res) ==
    /\ nreq < MaxRequests
    /\ nreq' = nreq + 1
    /\ UNCHANGED <<imp, mirror, push>>
    /\ LET req == Some([ run_number |-> n, step_number |-> k, fields |-> f ]) IN
       IF ~Authorized(cookie)
       THEN Unauthorized("update_step", cookie, req)
       ELSE /\ UNCHANGED <<runs, crTasks>>
            /\ IF res = "ok" /\ StepAt(I32(n), k) # {}
               THEN /\ steps' = { IF s.run_number = I32(n) /\ s.step_number = k
                                  THEN SetStepFields(s, f) ELSE s
                                  : s \in steps }
                    /\ resp' = Respond("update_step", cookie, req, 200, "Step updated")
               ELSE /\ steps' = steps
                    /\ resp' = Respond("update_step", cookie, req, 200,
                                       "No steps updated")

\* GET /api/runs/:run_number: the Run and its steps ordered by step_number,
\* or None.  The path parameter is an i32.
RECURSIVE OrderByStepNumber(_)
OrderByStepNumber(S) ==
    IF S = {} THEN <<>>
    ELSE LET s == CHOOSE x \in S : \A y \in S : x.step_number <= y.step_number
         IN <<s>> \o OrderByStepNumber(S \ {s})

\* A failed SELECT of the run answers null like a missing run; a failed
\* SELECT of the steps gives the empty list (unwrap_or_default).  The two
\* SELECTs read the tables and write nothing; they are taken as one step.
get_run_details(n, res_run, res_steps) ==
    IF res_run = "ok" /\ RunsWith(I32(n)) # {}
    THEN Some([ run |-> CHOOSE r \in RunsWith(I32(n)) : TRUE,
                steps |-> IF res_steps = "ok"
                          THEN OrderByStepNumber(StepsOf(I32(n)))
                          ELSE <<>> ])
    ELSE None

GetRunDetails(n, res_run, res_steps) ==
    /\ nreq < MaxRequests
    /\ nreq' = nreq + 1
    /\ resp' = [ Respond("get_run_details", None, Some(n), 200, "json")
                 EXCEPT !.details = get_run_details(n, res_run, res_steps) ]
    /\ UNCHANGED <<runs, steps, crTasks, imp, mirror, push>>

\* ------------------------------------------------------------------ import
\* Text is a sequence of one-character strings.
Digits == <<"0", "1", "2", "3", "4", "5", "6", "7", "8", "9">>
IsDigit(c) == \E i \in 1..10 : Digits[i] = c
DigitValue(c) == (CHOOSE i \in 1..10 : Digits[i] = c) - 1

\* The digits of s accumulated onto acc, added when sign = 1 and subtracted
\* when sign = -1, as i32::from_str does; None on a character that is no
\* digit or on leaving the range of i32.
RECURSIVE Accumulate(_, _, _)
Accumulate(s, acc, sign) ==
    IF s = <<>> THEN Some(acc)
    ELSE IF ~IsDigit(Head(s)) THEN None
    ELSE LET d == DigitValue(Head(s))
             fits == IF sign = 1
                     THEN acc < 214748364 \/ (acc = 214748364 /\ d <= 7)
                     ELSE acc > -214748364 \/ (acc = -214748364 /\ d <= 8)
         IN IF ~fits THEN None
            ELSE Accumulate(Tail(s), acc * 10 + sign * d, sign)

\* str::parse::<i32>(): an optional sign, then one or more digits and nothing
\* else, the value within the range of i32.
ParseI32(s) ==
    LET signed == s # <<>> /\ Head(s) \in { "+", "-" }
        digits == IF signed THEN Tail(s) ELSE s
        sign == IF s # <<>> /\ Head(s) = "-" THEN -1 ELSE 1
    IN IF digits = <<>> THEN None ELSE Accumulate(digits, 0, sign)

\* The parts of s between occurrences of sep.
RECURSIVE SplitOn(_, _, _)
SplitOn(s, sep, cur) ==
    IF s = <<>> THEN <<cur>>
    ELSE IF Head(s) = sep THEN <<cur>> \o SplitOn(Tail(s), sep, <<>>)
    ELSE SplitOn(Tail(s), sep, Append(cur, Head(s)))

IsLeap(y) == (y % 4 = 0 /\ y % 100 # 0) \/ y % 400 = 0
DaysIn(y, m) ==
    IF m = 2 THEN (IF IsLeap(y) THEN 29 ELSE 28)
    ELSE IF m \in { 4, 6, 9, 11 } THEN 30 ELSE 31

\* chrono::NaiveDate::parse_from_str(s, "%Y-%m-%d") on unsigned input: a year
\* of one to four digits, a month and a day of one or two digits, separated
\* by "-", that name a day of the calendar; then and_hms_opt(0, 0, 0).and_utc().
ParseDate(s) ==
    LET parts == SplitOn(s, "-", <<>>)
        num(i) == Accumulate(parts[i], 0, 1)
    IN IF /\ Len(parts) = 3
          /\ Len(parts[1]) \in 1..4 /\ Len(parts[2]) \in 1..2 /\ Len(parts[3]) \in 1..2
          /\ num(1) # None /\ num(2) # None /\ num(3) # None
          /\ num(2)[1] \in 1..12
          /\ num(3)[1] \in 1..DaysIn(num(1)[1], num(2)[1])
       THEN Some(Date(num(1)[1], num(2)[1], num(3)[1]))
       ELSE None

\* Mutant: the arm for "Transfer WIPAC" is missing.
parse_status_without_transfer_wipac(status) ==
    CASE status = "Not Yet Started" -> "NotYetStarted"
      [] status = "Transfer from Tape" -> "TransferFromTape"
      [] status = "Process Step 1" -> "ProcessStep1"
      [] status = "Finish Step 1" -> "FinishStep1"
      [] status = "Process Step 2" -> "ProcessStep2"
      [] status = "Finish Step 2" -> "FinishStep2"
      [] status = "Complete" -> "Complete"
      [] status = "Step 1 Error" -> "Step1Error"
      [] status = "Step 2 Error" -> "Step2Error"
      [] OTHER -> "NotYetStarted"

parse_status_to_state(status) ==
    CASE status = "Not Yet Started" -> "NotYetStarted"
      [] status = "Transfer from Tape" -> "TransferFromTape"
      [] status = "Process Step 1" -> "ProcessStep1"
      [] status = "Finish Step 1" -> "FinishStep1"
      [] status = "Transfer WIPAC" -> "TransferWIPAC"
      [] status = "Process Step 2" -> "ProcessStep2"
      [] status = "Finish Step 2" -> "FinishStep2"
      [] status = "Complete" -> "Complete"
      [] status = "Step 1 Error" -> "Step1Error"
      [] status = "Step 2 Error" -> "Step2Error"
      [] OTHER -> "NotYetStarted"

\* Records of events.json (the description is not read).
Jan1 == <<"2", "0", "2", "4", "-", "0", "1", "-", "0", "1">>
Mar9 == <<"2", "0", "2", "3", "-", "3", "-", "0", "9">>
Feb30 == <<"2", "0", "2", "4", "-", "0", "2", "-", "3", "0">>
Slashed == <<"0", "1", "/", "0", "2", "/", "2", "0", "2", "4">>
Event(title, date, status, url) ==
    [ title |-> title, date |-> date, status |-> status, url |-> url ]

Run1Complete == Event(<<"1">>, Jan1, "Complete", "http://a")
Run1Step1 == Event(<<"1">>, Mar9, "Process Step 1", "http://b")
Run2OnHold == Event(<<"2">>, Jan1, "on hold", "http://a")
\* Status texts: the ten display strings, and texts that are none of them
\* (another word, a display string in lower case, the empty text).
StatusSamples ==
    { "Not Yet Started", "Transfer from Tape", "Process Step 1", "Finish Step 1",
      "Transfer WIPAC", "Process Step 2", "Finish Step 2", "Complete",
      "Step 1 Error", "Step 2 Error", "on hold", "complete", "" }
EventRecords ==
    { Run1Complete, Run1Step1, Run2OnHold,
      Event(<<"r", "u", "n", "2">>, Jan1, "Complete", "http://a"),
      Event(<<>>, Jan1, "Complete", "http://a"),
      Event(<<"2">>, Feb30, "Complete", "http://b"),
      Event(<<"1">>, Slashed, "Complete", "http://b") } \cup
    { Event(<<"2">>, Jan1, status, "http://a") : status \in StatusSamples }

ImpIdle == [ pc |-> "loop", idx |-> 0, imported |-> 0, skipped |-> 0,
             run_number |-> 0, next |-> 0, event |-> None, last |-> "none" ]

\* Mutant: on conflict every column is replaced by the new record's.
UpsertReplacesRow(rs, n, date, state, url) ==
    { r \in rs : r.run_number # I32(n) } \cup
    { [ run_number |-> I32(n), file_number |-> 0, run_start_date |-> date,
        state |-> state, url |-> Some(url) ] }

\* INSERT INTO runs ... ON CONFLICT (run_number) DO UPDATE SET state =
\* EXCLUDED.state, url = EXCLUDED.url, with file_number bound to 0.
Upsert(rs, n, date, state, url) ==
    IF \A r \in rs : r.run_number # I32(n)
    THEN rs \cup { [ run_number |-> I32(n), file_number |-> 0,
                     run_start_date |-> date, state |-> state, url |-> Some(url) ] }
    ELSE { IF r.run_number = I32(n)
           THEN [ r EXCEPT !.state = state, !.url = Some(url) ] ELSE r
           : r \in rs }

\* Mutant: on conflict the existing step row is replaced by the new one.
InsertStepReplaces(ss, id, n, k) ==
    { s \in ss : ~(s.run_number = I32(n) /\ s.step_number = k) } \cup
    { EmptyStep(id, I32(n), k) }

\* INSERT INTO processing_steps (id, run_number, step_number) ... ON CONFLICT
\* (run_number, step_number) DO NOTHING
InsertStepIfAbsent(ss, id, n, k) ==
    IF \A s \in ss : ~(s.run_number = I32(n) /\ s.step_number = k)
    THEN ss \cup { EmptyStep(id, I32(n), k) }
    ELSE ss

\* Mutant: a skipped record is not counted.
SkipUncounted(ev) ==
    /\ imp' = [ imp EXCEPT !.idx = @ + 1, !.event = Some(ev), !.last = "skipped" ]
    /\ UNCHANGED runs

\* The three arms that end an iteration with skipped += 1: the title is no
\* i32, the date does not parse, or the upsert returned Err.
Skip(ev) ==
    /\ imp' = [ imp EXCEPT !.skipped = @ + 1, !.idx = @ + 1, !.event = Some(ev),
                           !.last = "skipped" ]
    /\ UNCHANGED runs

\* Mutant: a title that is no number is taken as run number 0.
ImportRecordDefaultsRunNumber(ev, res) ==
    /\ imp.pc = "loop"
    /\ imp.idx < MaxEvents
    /\ LET parsed == ParseI32(ev.title)
           run_number == IF parsed = None THEN Some(0) ELSE parsed
           run_start_date == ParseDate(ev.date)
           state == parse_status_to_state(ev.status)
       IN IF run_start_date = None THEN Skip(ev)
          ELSE IF res = "ok"
          THEN /\ runs' = Upsert(runs, run_number[1], run_start_date[1], state, ev.url)
               /\ imp' = [ imp EXCEPT !.pc = "steps", !.run_number = run_number[1],
                                      !.next = 1, !.event = Some(ev) ]
          ELSE Skip(ev)
    /\ UNCHANGED <<steps, crTasks, resp, nreq, mirror, push>>

\* One iteration of the loop over events, through the upsert of the Run.
ImportRecord(ev, res) ==
    /\ imp.pc = "loop"
    /\ imp.idx < MaxEvents
    /\ LET run_number == ParseI32(ev.title)
           run_start_date == ParseDate(ev.date)
           state == parse_status_to_state(ev.status)
       IN IF run_number = None THEN Skip(ev)
          ELSE IF run_start_date = None THEN Skip(ev)
          ELSE IF res = "ok"
          THEN /\ runs' = Upsert(runs, run_number[1], run_start_date[1], state, ev.url)
               /\ imp' = [ imp EXCEPT !.pc = "steps", !.run_number = run_number[1],
                                      !.next = 1, !.event = Some(ev) ]
          ELSE Skip(ev)
    /\ UNCHANGED <<steps, crTasks, resp, nreq, mirror, push>>

\* The loop `for step_num in [1, 2]` of the import, one INSERT per step, then
\* the count of the record as imported.
ImportStep ==
    /\ imp.pc = "steps"
    /\ steps' = InsertStepIfAbsent(steps, ImportUuid(imp.idx, imp.next),
                                   imp.run_number, imp.next)
    /\ imp' = IF imp.next = 1
              THEN [ imp EXCEPT !.next = 2 ]
              ELSE [ imp EXCEPT !.pc = "loop", !.next = 0, !.imported = @ + 1,
                                !.idx = @ + 1, !.last = "imported" ]
    /\ UNCHANGED <<runs, crTasks, resp, nreq, mirror, push>>

\* The end of the list: the counts are printed.
ImportDone ==
    /\ imp.pc = "loop"
    /\ imp' = [ imp EXCEPT !.pc = "done" ]
    /\ UNCHANGED <<runs, steps, crTasks, resp, nreq, mirror, push>>

\* The store after the import has run over a list of records with every
\* statement executed: what the server finds when it starts.
RECURSIVE Imported(_, _, _)
Imported(evs, idx, st) ==
    IF evs = <<>> THEN st
    ELSE LET ev == Head(evs)
             n == ParseI32(ev.title)
             d == ParseDate(ev.date)
         IN IF n = None \/ d = None THEN Imported(Tail(evs), idx + 1, st)
            ELSE Imported(Tail(evs), idx + 1,
                   [ runs |-> Upsert(st.runs, n[1], d[1],
                                     parse_status_to_state(ev.status), ev.url),
                     steps |-> InsertStepIfAbsent(
                                 InsertStepIfAbsent(st.steps, ImportUuid(idx, 1), n[1], 1),
                                 ImportUuid(idx, 2), n[1], 2) ])

SeedLists == { <<>>, <<Run1Complete>> }
EmptyStore == [ runs |-> {}, steps |-> {} ]

\* ------------------------------------------------------------------ mirror
\* serde_json::to_string and base64 STANDARD.encode, kept apart from the
\* value they are applied to.
ToJson(v) == <<"json", v>>
Base64(text) == <<"base64", text>>

\* The remote file runs.json of the contents API: GET returns its sha, PUT
\* replaces the content when the sha of the body is the current one and
\* answers 409 otherwise; every accepted write gives the file a new sha.
InitialMirror == [ sha |-> 0, content |-> Base64(ToJson(<<>>)), message |-> <<>> ]
MirrorGet(m) == [ sha |-> m.sha ]
MirrorAccepts(m, body) == body.sha = m.sha
MirrorPut(m, body) ==
    IF MirrorAccepts(m, body)
    THEN [ sha |-> m.sha + 1, content |-> body.content, message |-> body.message ]
    ELSE m
MirrorStatus(m, body) == IF MirrorAccepts(m, body) THEN 200 ELSE 409

\* Arguments of the push functions.
SampleRun(n, state) ==
    [ run_number |-> I32(n), file_number |-> 0, run_start_date |-> Date(2024, 1, 1),
      state |-> state, url |-> None ]
SampleRuns == { SampleRun(1, "Complete"), SampleRun(2, "ProcessStep1") }
SampleRunLists == { <<>>, <<SampleRun(1, "Complete"), SampleRun(2, "ProcessStep1")>> }
PushArgs ==
    { [ fn |-> "push_to_github_event", arg |-> r ] : r \in SampleRuns } \cup
    { [ fn |-> "push_to_github_events", arg |-> l ] : l \in SampleRunLists }

\* What goes wrong outside the program: a variable of the environment is not
\* set, or the HTTP call does not complete (GET: or its body has no sha).
PushOutcomes == { "ok", "no_env", "net_err" }
PutOutcomes == { "ok", "net_err" }

\* Mutant: the single-run push puts its run into the list the file holds,
\* in place of the entry of the same run_number.
PushContentMerged(a) ==
    IF a.fn = "push_to_github_event"
    THEN Base64(ToJson(Append(SelectSeq(mirror.content[2][2],
                                        LAMBDA r : r.run_number # a.arg.run_number),
                              a.arg)))
    ELSE Base64(ToJson(a.arg))

\* json_content / encoded_content / message of the two functions.
PushContent(a) ==
    IF a.fn = "push_to_github_event" THEN Base64(ToJson(<<a.arg>>))
    ELSE Base64(ToJson(a.arg))
PushMessage(a) ==
    IF a.fn = "push_to_github_event"
    THEN <<"Update run", a.arg.run_number, "state to", Display(a.arg.state),
           "via Web Dashboard">>
    ELSE <<"Bulk update runs state via Web Dashboard">>

\* Mutant: the sha sent is the file's sha at the time of the PUT.
PutBodyCurrentSha(p) ==
    [ message |-> PushMessage(p), content |-> PushContent(p), sha |-> mirror.sha ]

\* GitHubUpdatePayload: the sha sent is the one the GET returned.
PutBody(p) == [ message |-> PushMessage(p), content |-> PushContent(p), sha |-> p.sha ]

\* A call of push_to_github_event or push_to_github_events, up to the answer
\* of its GET.  Nothing in the program orders two calls.
PushGet(a, out) ==
    /\ Len(push) < MaxPushes
    /\ push' = Append(push,
          IF out = "ok"
          THEN [ fn |-> a.fn, arg |-> a.arg, pc |-> "put", sha |-> MirrorGet(mirror).sha,
                 status |-> 0, result |-> "pending" ]
          ELSE [ fn |-> a.fn, arg |-> a.arg, pc |-> "done", sha |-> -1,
                 status |-> 0, result |-> "Err" ])
    /\ UNCHANGED <<runs, steps, crTasks, resp, nreq, imp, mirror>>

\* Mutant: a write that is rejected or does not complete takes the pushed
\* runs back out of the store.
PushPutRollsBack(i, out) ==
    /\ i \in 1..Len(push)
    /\ push[i].pc = "put"
    /\ LET pushed == IF push[i].fn = "push_to_github_event"
                     THEN { push[i].arg.run_number }
                     ELSE { push[i].arg[k].run_number : k \in 1..Len(push[i].arg) }
           accepted == out = "ok" /\ MirrorAccepts(mirror, PutBody(push[i]))
       IN /\ runs' = IF accepted THEN runs
                     ELSE { r \in runs : r.run_number \notin pushed }
          /\ IF out = "ok"
             THEN /\ mirror' = MirrorPut(mirror, PutBody(push[i]))
                  /\ push' = [ push EXCEPT ![i].pc = "done",
                                           ![i].status = MirrorStatus(mirror, PutBody(push[i])),
                                           ![i].result = "Ok" ]
             ELSE /\ mirror' = mirror
                  /\ push' = [ push EXCEPT ![i].pc = "done", ![i].result = "Err" ]
    /\ UNCHANGED <<steps, crTasks, resp, nreq, imp>>

\* Mutant: the status of the PUT's answer is read, and an answer that is no
\* success is returned as Err.
PushPutChecksStatus(i, out) ==
    /\ i \in 1..Len(push)
    /\ push[i].pc = "put"
    /\ IF out = "ok"
       THEN /\ mirror' = MirrorPut(mirror, PutBody(push[i]))
            /\ push' = [ push EXCEPT ![i].pc = "done",
                                     ![i].status = MirrorStatus(mirror, PutBody(push[i])),
                                     ![i].result =
                                        IF MirrorStatus(mirror, PutBody(push[i])) = 200
                                        THEN "Ok" ELSE "Err" ]
       ELSE /\ mirror' = mirror
            /\ push' = [ push EXCEPT ![i].pc = "done", ![i].result = "Err" ]
    /\ UNCHANGED <<runs, steps, crTasks, resp, nreq, imp>>

\* The PUT of call i and the return of the function: Ok(()) whenever the
\* request was sent and answered, whatever the status of the answer.
PushPut(i, out) ==
    /\ i \in 1..Len(push)
    /\ push[i].pc = "put"
    /\ IF out = "ok"
       THEN /\ mirror' = MirrorPut(mirror, PutBody(push[i]))
            /\ push' = [ push EXCEPT ![i].pc = "done",
                                     ![i].status = MirrorStatus(mirror, PutBody(push[i])),
                                     ![i].result = "Ok" ]
       ELSE /\ mirror' = mirror
            /\ push' = [ push EXCEPT ![i].pc = "done", ![i].result = "Err" ]
    /\ UNCHANGED <<runs, steps, crTasks, resp, nreq, imp>>

\* ------------------------------------------------------------ specification
\* The server, started on a store the import has filled.
Init ==
    /\ \E evs \in SeedLists :
          /\ runs = Imported(evs, 0, EmptyStore).runs
          /\ steps = Imported(evs, 0, EmptyStore).steps
    /\ crTasks = {}
    /\ resp = NoResp
    /\ nreq = 0
    /\ imp = ImpIdle
    /\ mirror = InitialMirror
    /\ push = <<>>

Next ==
    \/ \E c \in Cookies, p \in CreateRunPayloads, res \in StoreResults :
          CreateRun(c, p, res)
    \/ \E t \in crTasks, res \in StoreResults : CreateRunStep(t, res)
    \/ \E c \in Cookies, n \in RunNumbers, s \in SampleStates, res \in StoreResults :
          UpdateRunState(c, n, s, res)
    \/ \E c \in Cookies, n \in RunNumbers, k \in StepNumbers, f \in StepFields,
          res \in StoreResults : UpdateStep(c, n, k, f, res)
    \/ \E n \in RunNumbers, res_run \in StoreResults, res_steps \in StoreResults :
          GetRunDetails(n, res_run, res_steps)

Spec == Init /\ [][Next]_vars

\* The server under the scheduling the runtime gives it: a request whose
\* handler has begun goes on to its next statement.  Whether and when
\* requests arrive is up to the clients.
SpecLive ==
    /\ Init
    /\ [][Next]_vars
    /\ WF_vars(\E t \in crTasks, res \in StoreResults : CreateRunStep(t, res))

\* The import binary, run against an empty store.
InitImport ==
    /\ runs = {}
    /\ steps = {}
    /\ crTasks = {}
    /\ resp = NoResp
    /\ nreq = 0
    /\ imp = ImpIdle
    /\ mirror = InitialMirror
    /\ push = <<>>

NextImport ==
    \/ \E ev \in EventRecords, res \in StoreResults : ImportRecord(ev, res)
    \/ ImportStep
    \/ ImportDone

SpecImport == InitImport /\ [][NextImport]_vars

\* The mirror synchronizer: calls of the two push functions, in any order
\* and overlap.
NextMirror ==
    \/ \E a \in PushArgs, out \in PushOutcomes : PushGet(a, out)
    \/ \E i \in 1..MaxPushes, out \in PutOutcomes : PushPut(i, out)

SpecMirror == InitImport /\ [][NextMirror]_vars

\* The import binary run again, on the store an earlier run over run 1 and
\* an update_step on step 1 of run 1 have left.  The earlier run's draws of
\* Uuid::new_v4() are none of this run's.
StepData ==
    [ started_date |-> Some(Date(2024, 2, 1)), end_date |-> Some(Date(2024, 2, 2)),
      site |-> Some("NERSC"), checksum |-> Some("abc"), location |-> Some("/data") ]

InitReimport ==
    /\ runs = Imported(<<Run1Complete>>, MaxEvents, EmptyStore).runs
    /\ steps = { IF s.step_number = 1 THEN SetStepFields(s, StepData) ELSE s :
                   s \in Imported(<<Run1Complete>>, MaxEvents, EmptyStore).steps }
    /\ crTasks = {}
    /\ resp = NoResp
    /\ nreq = 0
    /\ imp = ImpIdle
    /\ mirror = InitialMirror
    /\ push = <<>>

SpecReimport == InitReimport /\ [][NextImport]_vars

\* The server and the mirror synchronizer side by side: authorized state
\* transitions on a store that holds run 1, and calls of the two push
\* functions.
InitSync ==
    /\ runs = Imported(<<Run1Complete>>, 0, EmptyStore).runs
    /\ steps = Imported(<<Run1Complete>>, 0, EmptyStore).steps
    /\ crTasks = {}
    /\ resp = NoResp
    /\ nreq = 0
    /\ imp = ImpIdle
    /\ mirror = InitialMirror
    /\ push = <<>>

NextSync ==
    \/ \E n \in RunNumbers, s \in SampleStates, res \in StoreResults :
          UpdateRunState(AdminCookie, n, s, res)
    \/ \E a \in PushArgs, out \in PushOutcomes : PushGet(a, out)
    \/ \E i \in 1..MaxPushes, out \in PutOutcomes : PushPut(i, out)

SpecSync == InitSync /\ [][NextSync]_vars

\* ------------------------------------------------------------------ claims
OptionalFieldsEmpty(s) ==
    /\ s.started_date = None /\ s.end_date = None
    /\ s.site = None /\ s.checksum = None /\ s.location = None

HasBothSteps(n) ==
    /\ Cardinality(StepsOf(n)) = 2
    /\ { s.step_number : s \in StepsOf(n) } = { 1, 2 }

\* C1: after a create_run that answers success the store holds the new Run
\* and exactly two steps carrying that Run's run_number, numbered 1 and 2,
\* with every optional field empty.
C1_CreatedRunHasItsTwoSteps ==
    (resp.op = "create_run" /\ resp.status = 200) =>
        /\ Cardinality(RunsWith(resp.created[1])) = 1
        /\ HasBothSteps(resp.created[1])
        /\ \A s \in StepsOf(resp.created[1]) : OptionalFieldsEmpty(s)

\* A create_run, update_run_state or update_step request with cookie c.
MutatingRequest(c) ==
    \/ \E p \in CreateRunPayloads, res \in StoreResults : CreateRun(c, p, res)
    \/ \E n \in RunNumbers, s \in SampleStates, res \in StoreResults :
          UpdateRunState(c, n, s, res)
    \/ \E n \in RunNumbers, k \in StepNumbers, f \in StepFields, res \in StoreResults :
          UpdateStep(c, n, k, f, res)

\* The step answers 401 to cookie c and changes no row.
Refused(c) ==
    /\ resp'.status = 401
    /\ resp'.cookie = c
    /\ runs' = runs
    /\ steps' = steps

\* C2: a create_run, update_run_state or update_step whose session cookie is
\* absent or is not "admin_authorized" answers 401 and changes no Run and no
\* ProcessingStep row, whatever other requests are in progress: every step
\* is refused in this way or is no such request.
C2_UnauthorizedChangesNothing ==
    [][ \A c \in Cookies \ { AdminCookie } : Refused(c) \/ ~MutatingRequest(c) ]_vars

\* A guest's update_step on a step that exists, while a create_run is between
\* its inserts, has been answered 401.
C2_Witness ==
    /\ resp.op = "update_step"
    /\ resp.status = 401
    /\ resp.cookie = Some("guest")
    /\ StepAt(I32(resp.req[1].run_number), resp.req[1].step_number) # {}
    /\ crTasks # {}

\* C3: of two pushes that hold the token of the same read, the first whose
\* write reaches the mirror is accepted, the second is answered Conflict and
\* changes nothing: the content stays that of the first write.
C3_SecondWriteWithSameTokenConflicts ==
    [][ \A i \in 1..Len(push) :
          PushPut(i, "ok") =>
             /\ push[i].sha = mirror.sha =>
                   /\ push'[i].status = 200
                   /\ mirror'.content = PushContent(push[i])
                   /\ mirror'.sha # mirror.sha
             /\ \A j \in 1..Len(push) :
                   (j # i /\ push[j].sha = push[i].sha /\ push[j].status = 200) =>
                      /\ push'[i].status = 409
                      /\ mirror' = mirror
                      /\ mirror.sha = push[j].sha + 1 =>
                            mirror'.content = PushContent(push[j]) ]_vars

\* Two pushes of different content read the same token; one was accepted,
\* the other answered 409, and the mirror holds the accepted one's content.
C3_Witness ==
    \E i, j \in 1..Len(push) :
        /\ push[i].pc = "done" /\ push[j].pc = "done"
        /\ push[i].sha = push[j].sha
        /\ push[i].status = 200 /\ push[j].status = 409
        /\ PushContent(push[i]) # PushContent(push[j])
        /\ mirror.content = PushContent(push[i])

\* C4: update_step leaves the stored value of every field absent from the
\* request unchanged.
C4_AbsentFieldsKeepStoredValue ==
    [][ \A n \in RunNumbers, k \in StepNumbers, f \in StepFields, res \in StoreResults :
          UpdateStep(AdminCookie, n, k, f, res) =>
             \A s \in StepAt(I32(n), k) :
                \E t \in steps' :
                   /\ t.id = s.id
                   /\ f.started_date = None => t.started_date = s.started_date
                   /\ f.end_date = None => t.end_date = s.end_date
                   /\ f.site = None => t.site = s.site
                   /\ f.checksum = None => t.checksum = s.checksum
                   /\ f.location = None => t.location = s.location ]_vars

\* C5: a second authorized update_run_state with the same run and state,
\* right after one that updated the run, leaves the store as the first left
\* it, with the run in that state, and is answered without error.
C5_TransitionIdempotent ==
    [][ \A n \in RunNumbers, s \in SampleStates, res \in StoreResults :
          ( /\ resp.op = "update_run_state"
            /\ resp.cookie = AdminCookie
            /\ resp.body = "Updated"
            /\ resp.req = Some([ run_number |-> n, new_state |-> s ])
            /\ UpdateRunState(AdminCookie, n, s, res) )
          => /\ runs' = runs
             /\ steps' = steps
             /\ \A r \in runs' : r.run_number = I32(n) => r.state = s
             /\ resp'.status = 200 ]_vars

\* The same transition was applied twice in a row and answered "Updated"
\* both times.
C5_Witness ==
    /\ resp.op = "update_run_state"
    /\ resp.cookie = AdminCookie
    /\ resp.body = "Updated"
    /\ resp.again
    /\ \E r \in runs : /\ r.run_number = I32(resp.req[1].run_number)
                       /\ r.state = resp.req[1].new_state

C7_UnparsableRecordIsSkipped ==
    [][ \A ev \in EventRecords, res \in StoreResults :
          ( /\ imp'.event = Some(ev)
            /\ ImportRecord(ev, res)
            /\ (ParseI32(ev.title) = None \/ ParseDate(ev.date) = None) )
          => /\ imp'.skipped = imp.skipped + 1
             /\ imp'.imported = imp.imported
             /\ runs' = runs
             /\ steps' = steps ]_vars

\* After one record was imported, one with a non-numeric title and one with
\* an impossible date were skipped.
C7_Witness ==
    /\ imp.last = "skipped"
    /\ imp.skipped = 2
    /\ imp.imported = 1
    /\ ParseI32(imp.event[1].title) # None
    /\ ParseDate(imp.event[1].date) = None
    /\ runs # {}

\* C8: every authorized update_run_state that updates a Run schedules
\* exactly one mirror push, carrying the updated Run.
C8_TransitionSchedulesOnePush ==
    [][ \A n \in RunNumbers, s \in SampleStates :
          ( UpdateRunState(AdminCookie, n, s, "ok") /\ RunsWith(I32(n)) # {} )
          => /\ Len(push') = Len(push) + 1
             /\ push'[Len(push')].arg \in runs' ]_vars

\* C9: create_run's three inserts are one unit: no state is reachable in
\* which a Run is in the store without both of its steps.
C9_NoRunWithoutItsSteps ==
    \A r \in runs : HasBothSteps(r.run_number)

\* C10: at most one fetch-token-then-write cycle against the mirror target
\* is in flight at any time.
C10_OneCycleInFlight ==
    Cardinality({ i \in 1..Len(push) : push[i].pc = "put" }) <= 1

\* C11: no step of a push, whatever its outcome (accepted, Conflict, an
\* environment variable missing, a request that does not complete), changes
\* a Run or a ProcessingStep row: a transition the store has taken stays.
C11_PushLeavesStoreUnchanged ==
    [][ ( \/ \E a \in PushArgs, out \in PushOutcomes : PushGet(a, out)
          \/ \E i \in 1..Len(push), out \in PutOutcomes : PushPut(i, out) )
        => /\ runs' = runs
           /\ steps' = steps ]_vars

\* Run 1 was moved from Complete to Process Step 1, a push of run 1 was
\* answered Conflict, and the run is still in Process Step 1.
C11_Witness ==
    /\ resp.op = "update_run_state"
    /\ resp.body = "Updated"
    /\ resp.req = Some([ run_number |-> 1, new_state |-> "ProcessStep1" ])
    /\ \E i \in 1..Len(push) : /\ push[i].pc = "done"
                                /\ push[i].status = 409
                                /\ push[i].fn = "push_to_github_event"
                                /\ push[i].arg.run_number = I32(1)
    /\ \E r \in runs : r.run_number = I32(1) /\ r.state = "ProcessStep1"
    /\ HasBothSteps(I32(1))

\* C12: a push whose write is answered Conflict is not given up with that
\* answer: the call goes on to another cycle (a new token, the snapshot
\* serialized again, another write) before it returns.
C12_ConflictIsRetried ==
    [][ \A i \in 1..Len(push) :
          ( /\ PushPut(i, "ok")
            /\ MirrorStatus(mirror, PutBody(push[i])) = 409 )
          => push'[i].pc # "done" ]_vars

\* C13: in every reachable state every Run has exactly two ProcessingStep
\* rows, one numbered 1 and one numbered 2, and no step removes a Run or a
\* step row.
C13_EveryRunAlwaysHasTwoSteps ==
    /\ []( \A r \in runs :
              /\ Cardinality(StepAt(r.run_number, 1)) = 1
              /\ Cardinality(StepAt(r.run_number, 2)) = 1
              /\ \A s \in StepsOf(r.run_number) : s.step_number \in { 1, 2 } )
    /\ [][ /\ \A r \in runs : \E q \in runs' : q.run_number = r.run_number
           /\ \A s \in steps : \E t \in steps' : t.id = s.id ]_vars

\* C14: an authorized update_step on a (run_number, step_number) pair that is
\* not in the store fails with NotFound, an error status; an authorized
\* update_run_state on a run_number that is not in the store answers 200
\* "No runs updated"; neither creates or changes a row.
C14_MissingRowIsReported ==
    [][ /\ \A n \in RunNumbers, k \in StepNumbers, f \in StepFields, res \in StoreResults :
             ( UpdateStep(AdminCookie, n, k, f, res) /\ StepAt(I32(n), k) = {} )
             => /\ resp'.status >= 400
                /\ runs' = runs
                /\ steps' = steps
        /\ \A n \in RunNumbers, s \in SampleStates, res \in StoreResults :
             ( UpdateRunState(AdminCookie, n, s, res) /\ RunsWith(I32(n)) = {} )
             => /\ resp'.status = 200
                /\ resp'.body = "No runs updated"
                /\ runs' = runs
                /\ steps' = steps ]_vars

\* C15: the import counts every record it has gone through exactly once, as
\* imported or as skipped, whichever way the record ended (title or date not
\* parsed, store error on the upsert, or imported); the loop ends only at
\* the end of the list, where imported + skipped is the number of records.
C15_EveryRecordCountedOnce ==
    /\ []( imp.imported + imp.skipped = imp.idx )
    /\ [][ /\ imp'.imported \in { imp.imported, imp.imported + 1 }
           /\ imp'.skipped \in { imp.skipped, imp.skipped + 1 }
           /\ imp'.pc = "done" => (imp.pc = "loop" /\ imp'.idx = imp.idx) ]_vars

\* A list of three records is done: one was imported, one was skipped, and
\* the last, whose title and date parse, was skipped on a store error.
C15_Witness ==
    /\ imp.pc = "done"
    /\ imp.idx = 3
    /\ imp.imported = 1
    /\ imp.skipped = 2
    /\ imp.last = "skipped"
    /\ ParseI32(imp.event[1].title) # None
    /\ ParseDate(imp.event[1].date) # None

\* C16: no step of the import changes a ProcessingStep row that exists: each
\* stays in the store with its id and every field as they were, and a row
\* the import adds has a (run_number, step_number) pair no row had.
C16_ImportKeepsExistingSteps ==
    [][ ( \/ \E ev \in EventRecords, res \in StoreResults :
                imp'.event = Some(ev) /\ ImportRecord(ev, res)
          \/ ImportStep )
        => /\ \A s \in steps : s \in steps'
           /\ \A t \in steps' \ steps : StepAt(t.run_number, t.step_number) = {} ]_vars

\* A record for run 1 was imported onto a store in which step 1 of run 1
\* had been filled in: the step still has its id and its data, and run 1
\* still has two steps.
C16_Witness ==
    /\ imp.last = "imported"
    /\ imp.pc = "loop"
    /\ imp.run_number = 1
    /\ \E s \in StepAt(I32(1), 1) :
          /\ s.id = ImportUuid(MaxEvents, 1)
          /\ s.site = Some("NERSC")
          /\ s.started_date = Some(Date(2024, 2, 1))
    /\ Cardinality(StepsOf(I32(1))) = 2

\* C17: the run_number create_run gives a new Run is an integer greater than
\* that of every Run in the store; in every state no two Runs have the same
\* run_number and no two ProcessingSteps the same (run_number, step_number).
C17_FreshIntegerRunNumbers ==
    /\ []( /\ \A r \in runs : r.run_number[1] = "i32"
           /\ \A r, q \in runs : r.run_number = q.run_number => r = q
           /\ \A s, t \in steps :
                 (s.run_number = t.run_number /\ s.step_number = t.step_number)
                 => s = t )
    /\ [][ \A r \in runs' \ runs :
              /\ r.run_number[1] = "i32"
              /\ \A q \in runs :
                    q.run_number[1] = "i32" /\ q.run_number[2] < r.run_number[2] ]_vars

\* C18: parse_status_to_state gives, for each of the ten display strings,
\* the state displayed as that string, so parsing what a state displays as
\* gives the state back; every other text gives NotYetStarted.  A record
\* whose title and date parse and whose upsert succeeds is stored in that
\* state and goes on to be imported, whatever its status text.
C18_StatusParsesToDisplayedState ==
    /\ []( \A s \in WorkflowState : parse_status_to_state(Display(s)) = s )
    /\ [][ \A ev \in EventRecords :
             ( /\ imp'.event = Some(ev)
               /\ ImportRecord(ev, "ok")
               /\ ParseI32(ev.title) # None
               /\ ParseDate(ev.date) # None )
             => /\ imp'.pc = "steps"
                /\ imp'.skipped = imp.skipped
                /\ \A r \in runs' :
                      r.run_number = I32(imp'.run_number) =>
                         IF \E s \in WorkflowState : Display(s) = ev.status
                         THEN Display(r.state) = ev.status
                         ELSE r.state = "NotYetStarted" ]_vars

\* Run 1 was imported with status "Process Step 1" and run 2 with status
\* "on hold": run 1 is in ProcessStep1, run 2 in NotYetStarted, and both
\* records were counted as imported.
C18_Witness ==
    /\ imp.last = "imported"
    /\ imp.pc = "loop"
    /\ imp.event = Some(Run2OnHold)
    /\ imp.imported = 2
    /\ imp.skipped = 0
    /\ \E r \in runs : r.run_number = I32(1) /\ r.state = "ProcessStep1"
    /\ \E r \in runs : r.run_number = I32(2) /\ r.state = "NotYetStarted"

\* The list of runs the mirror's content decodes to holds the Runs of the
\* store, each once.
MirrorMatchesStore ==
    LET held == mirror.content[2][2]
    IN /\ Len(held) = Cardinality(runs)
       /\ { held[i] : i \in 1..Len(held) } = runs

\* C19: the mirror converges: from some point on, once requests have stopped
\* changing the store, the mirror's content is the collection of Runs of the
\* store.
C19_MirrorConverges ==
    <>[]MirrorMatchesStore

\* C20: both push functions write the one remote file.  When the write of a
\* push_to_github_event(run) is accepted, the file's content is the list of
\* that run alone, whatever it held; and when a single-run push and a bulk
\* push hold the token of the same read and one of them was accepted, the
\* other is answered Conflict and changes nothing.
C20_SinglePushReplacesTheCollection ==
    [][ \A i \in 1..Len(push) :
          PushPut(i, "ok") =>
             /\ (push[i].fn = "push_to_github_event" /\ push'[i].status = 200) =>
                   mirror'.content = Base64(ToJson(<<push[i].arg>>))
             /\ \A j \in 1..Len(push) :
                   ( /\ push[j].fn # push[i].fn
                     /\ push[j].sha = push[i].sha
                     /\ push[j].status = 200 )
                   => /\ push'[i].status = 409
                      /\ mirror' = mirror ]_vars

\* A bulk push of two runs was accepted; a single-run push that read the
\* token after it was accepted too, and the file holds that one run only.
C20_Witness ==
    \E i, j \in 1..Len(push) :
        /\ push[i].fn = "push_to_github_events"
        /\ Len(push[i].arg) = 2
        /\ push[i].status = 200
        /\ push[j].fn = "push_to_github_event"
        /\ push[j].sha = push[i].sha + 1
        /\ push[j].status = 200
        /\ mirror.content = Base64(ToJson(<<push[j].arg>>))
        /\ Len(mirror.content[2][2]) = 1

\* C21: a push whose GET gave a token and whose PUT was sent and answered
\* returns Ok, whether the mirror accepted the write or answered Conflict;
\* a push returns Err only when it read no token or its PUT was not
\* answered, so Ok says nothing about the write having been accepted.
C21_PushReturnsOkWhateverTheAnswer ==
    /\ [][ \A i \in 1..Len(push) :
             PushPut(i, "ok") =>
                /\ push'[i].result = "Ok"
                /\ push'[i].status = MirrorStatus(mirror, PutBody(push[i])) ]_vars
    /\ []( \A i \in 1..Len(push) :
              /\ push[i].status \in { 200, 409 } => push[i].result = "Ok"
              /\ push[i].result = "Err" => (push[i].pc = "done" /\ push[i].status = 0) )

\* Two pushes read the same token and both returned Ok: the write of one was
\* accepted, the write of the other was answered 409 and is not in the file.
C21_Witness ==
    \E i, j \in 1..Len(push) :
        /\ push[i].pc = "done" /\ push[j].pc = "done"
        /\ push[i].sha = push[j].sha
        /\ push[i].status = 200 /\ push[i].result = "Ok"
        /\ push[j].status = 409 /\ push[j].result = "Ok"
        /\ mirror.content # PushContent(push[j])

====
